---- MODULE Spec2Model ----
(***************************************************************************)
(* Multi-window note lifecycle of the sticky-notes application             *)
(* (src/src/App.vue): one note-editor window (label "note-abc") with its   *)
(* debounced persistence and close-with-flush, the dashboard window        *)
(* (label "main") with its summary list, and between them the backend      *)
(* commands reached through invoke() and the 'refresh-notes' event.        *)
(*                                                                         *)
(* Every await of the source is a suspension point: the call is issued in  *)
(* one action and its continuation runs in the action that resolves it.    *)
(* Time is counted in milliseconds; a timer callback runs at the instant   *)
(* its delay has elapsed, before time advances further.                    *)
(***************************************************************************)
EXTENDS Naturals, Sequences, FiniteSets

\* ------------------------------------------------------------------ bounds
MaxEdits == 3
MaxCloses == 2
MaxUserFetches == 1
MaxCreateClicks == 3
MaxRefreshInputs == 3
MaxLabelParts == 3
MaxDeleteClicks == 1
MaxCloseInputs == 3

\* the delay of setTimeout in debounceSave
DebounceDelay == 1000

\* the markdown the embedded editor reports: the k-th notification carries
\* the text after the k-th change, and successive texts differ
Typed == <<"Hello", "Hello world", "Hello world!", "Hello world!!",
           "Hello world!!!", "Hello world!!!!">>
\* the amounts by which time advances between two events
Steps == {500}
\* time since the last edit is tracked up to "more than the delay"
TimeCap == DebounceDelay + 1

\* the note the editor window is bound to (label "note-abc")
noteId == "abc"
\* the ids create_new_note_cmd hands out, in order
NewIds == <<"n1", "n2", "n3", "n4", "n5">>

VARIABLES
  edPc,            \* editor onMounted: "loading" (load_note awaited) | "ready"
  currentContent,  \* currentContent.value
  saveTimeout,     \* saveTimeout: 0 for null, else a timer id
  timers,          \* the armed timers of the event loop: [id, content, left]
  saveLog,         \* every save_note call issued: [by, tid, content, status]
  closers,         \* closeWindow calls suspended at an await: [sid, stage]
  timerPubs,       \* trigger_refresh_notes calls in flight from timer callbacks
  destroyed,       \* appWindow.close() has been issued by the editor window
  editLog,         \* the markdown of every edit notification, in order
  closeLog,        \* every close request: [pending, sid, within, nEdits]
  sinceEdit,       \* milliseconds since the last edit, capped at TimeCap
  within,          \* every edit so far came < DebounceDelay after the previous
  spaced,          \* every edit so far came > DebounceDelay after the previous
  store,           \* the backend's note store: note id -> content
  published,       \* 'refresh-notes' events emitted so far
  pubFailed,       \* trigger_refresh_notes calls that were rejected
  dashPc,          \* dashboard onMounted: "fetching" | "registering" | "listening"
  allNotes,        \* allNotes.value: the summary list, note id -> preview
  allNotesSeq,     \* which get_all_notes request allNotes came from (0: none)
  fetches,         \* get_all_notes calls in flight: [seq, served, snap]
  fetchSeq,        \* get_all_notes calls issued so far
  events,          \* 'refresh-notes' events on their way to the dashboard listener
  refetches,       \* fetchNotes calls made by the dashboard listener
  userFetches,     \* clicks on "Refresh List"
  isCreatingNote,  \* isCreatingNote.value
  creating,        \* create_new_note_cmd calls in flight
  createCalls,     \* create_new_note_cmd calls issued so far
  createSkipped,   \* createNewNote invocations that returned at the guard
  hidden,          \* appWindow.hide() has been issued by the dashboard
  minted,          \* note ids handed out by create_new_note_cmd so far
  label,           \* appWindow.label of a window, as a sequence of characters
  role,            \* what the window's startup made of its label: [kind, id]
  deleting,        \* delete_note calls in flight: the note ids, in issue order
  deleteClicks,    \* clicks on a card's "Delete Permanently" button
  fetchFailed,     \* rejected get_all_notes calls: how many, and which response
                   \* the list held at the last one
  dashDestroyed    \* appWindow.close() has been issued by the dashboard window

edVars == <<edPc, currentContent, saveTimeout, timers, saveLog, closers, timerPubs,
            destroyed, editLog, closeLog, sinceEdit, within, spaced>>
busVars == <<published, events, pubFailed>>
dashVars == <<dashPc, allNotes, allNotesSeq, fetches, fetchSeq, refetches,
              userFetches, isCreatingNote, creating, createCalls, createSkipped,
              hidden>>
backVars == <<store, minted>>
idVars == <<label, role>>
delVars == <<deleting, deleteClicks>>
vars == <<edVars, backVars, busVars, dashVars, idVars, delVars, fetchFailed,
          dashDestroyed>>

Min(a, b) == IF a < b THEN a ELSE b

Last(s) == s[Len(s)]

\* ---------------------------------------------------------------- timers
\* a clearTimeout that cancels nothing
ClearTimeoutNoop(ts, id) == ts

\* clearTimeout(id): the timer with that id, if still armed, is cancelled
ClearTimeout(ts, id) == {t \in ts : t.id # id}

\* setTimeout(cb, 1000): a timer whose callback has captured `content`
SetTimeout(ts, id, content) ==
  ts \cup {[id |-> id, content |-> content, left |-> DebounceDelay]}

\* setTimeout returns a fresh positive id; debounceSave is its only caller
NextTimerId == Len(editLog) + 1

\* ------------------------------------------------------- window identity
\* the reserved labels, as sequences of characters
Main == <<"m", "a", "i", "n">>
NotePrefix == <<"n", "o", "t", "e", "-">>

\* the label of the editor window of note noteId: "note-abc"
EditorLabel == NotePrefix \o <<"a", "b", "c">>

\* the labels tried: every concatenation of up to MaxLabelParts of these
LabelParts == {Main, NotePrefix, <<"4">>, <<"2">>, <<"n">>}

RECURSIVE Concats(_)
Concats(n) == IF n = 0 THEN {<<>>}
              ELSE {a \o b : a \in LabelParts, b \in Concats(n - 1)}

Labels == UNION {Concats(n) : n \in 1..MaxLabelParts}

\* label.startsWith(pat)
StartsWith(s, pat) == Len(s) >= Len(pat) /\ SubSeq(s, 1, Len(pat)) = pat

\* where pat first occurs in s, 0 if nowhere
IndexOf(s, pat) ==
  LET at == {i \in 1..Len(s) : i + Len(pat) - 1 <= Len(s)
                               /\ SubSeq(s, i, i + Len(pat) - 1) = pat}
  IN IF at = {} THEN 0 ELSE CHOOSE i \in at : \A j \in at : i <= j

\* a replace that removes every occurrence of pat
RECURSIVE ReplaceAll(_, _, _)
ReplaceAll(s, pat, rep) ==
  LET i == IndexOf(s, pat)
  IN IF i = 0 THEN s
     ELSE SubSeq(s, 1, i - 1) \o rep
            \o ReplaceAll(SubSeq(s, i + Len(pat), Len(s)), pat, rep)

\* label.replace(pat, rep) with a string pattern: the first occurrence only
Replace(s, pat, rep) ==
  LET i == IndexOf(s, pat)
  IN IF i = 0 THEN s
     ELSE SubSeq(s, 1, i - 1) \o rep \o SubSeq(s, i + Len(pat), Len(s))

Unresolved == [kind |-> "Unresolved", id |-> <<>>]
Dashboard == [kind |-> "Dashboard", id |-> <<>>]
NoteEditor(id) == [kind |-> "NoteEditor", id |-> id]

\* isDashboard = (label === 'main'); otherwise onMounted sets
\* noteId = label.startsWith('note-') ? label.replace('note-', '') : label
Resolve(l) ==
  IF l = Main THEN Dashboard
  ELSE NoteEditor(IF StartsWith(l, NotePrefix) THEN Replace(l, NotePrefix, <<>>)
                                               ELSE l)

\* a window starts up: its role is derived once from its label
ResolveLabel ==
  /\ role = Unresolved
  /\ role' = Resolve(label)
  /\ UNCHANGED <<edVars, backVars, busVars, dashVars, label, delVars,
                 fetchFailed, dashDestroyed>>

\* ------------------------------------------------------- editor: onMounted
\* load_note resolves with the stored content (an empty string is falsy and
\* leaves currentContent alone) or rejects; either way the editor is created
LoadNoteResolves(ok) ==
  /\ edPc = "loading"
  /\ ~destroyed
  /\ edPc' = "ready"
  /\ ok => noteId \in DOMAIN store
  /\ currentContent' = IF ok /\ store[noteId] # "" THEN store[noteId]
                                                  ELSE currentContent
  /\ UNCHANGED <<saveTimeout, timers, saveLog, closers, timerPubs, destroyed,
                 editLog, closeLog, sinceEdit, within, spaced>>
  /\ UNCHANGED <<backVars, busVars, dashVars>>
  /\ UNCHANGED <<idVars, delVars, fetchFailed, dashDestroyed>>

\* a debounceSave that schedules nothing while the slot is occupied
DebounceSaveIfIdle(content) ==
  /\ timers' = IF saveTimeout # 0 THEN timers
                ELSE SetTimeout(timers, NextTimerId, content)
  /\ saveTimeout' = IF saveTimeout # 0 THEN saveTimeout ELSE NextTimerId

\* ----------------------------------------------------- editor: debounceSave
\* if (saveTimeout) clearTimeout(saveTimeout); saveTimeout = setTimeout(...)
DebounceSave(content) ==
  /\ timers' = SetTimeout(IF saveTimeout # 0
                            THEN ClearTimeout(timers, saveTimeout)
                            ELSE timers,
                          NextTimerId, content)
  /\ saveTimeout' = NextTimerId

\* listener.markdownUpdated: currentContent.value = markdown; debounceSave(markdown)
MarkdownUpdated(markdown) ==
  /\ edPc = "ready"
  /\ ~destroyed
  /\ Len(editLog) < MaxEdits
  /\ currentContent' = markdown
  /\ DebounceSave(markdown)
  /\ editLog' = Append(editLog, markdown)
  /\ sinceEdit' = 0
  /\ within' = (within /\ (editLog = <<>> \/ sinceEdit < DebounceDelay))
  /\ spaced' = (spaced /\ (editLog = <<>> \/ sinceEdit > DebounceDelay))
  /\ UNCHANGED <<edPc, saveLog, closers, timerPubs, destroyed, closeLog>>
  /\ UNCHANGED <<backVars, busVars, dashVars>>
  /\ UNCHANGED <<idVars, delVars, fetchFailed, dashDestroyed>>

\* a save_note call as it is issued
SaveCall(by, tid, content) ==
  [by |-> by, tid |-> tid, content |-> content, status |-> "inflight"]

\* the timer callback starts: invoke('save_note', {id, content}) with the
\* content captured by the closure, then suspends
TimerFires(t) ==
  /\ ~destroyed
  /\ t \in timers
  /\ t.left = 0
  /\ timers' = timers \ {t}
  /\ saveLog' = Append(saveLog, SaveCall("timer", t.id, t.content))
  /\ UNCHANGED <<edPc, currentContent, saveTimeout, closers, timerPubs, destroyed,
                 editLog, closeLog, sinceEdit, within, spaced>>
  /\ UNCHANGED <<backVars, busVars, dashVars>>
  /\ UNCHANGED <<idVars, delVars, fetchFailed, dashDestroyed>>

\* time passes: by d, or up to the earliest expiry of an armed timer
Elapse(d) == IF timers = {} THEN d
             ELSE Min(d, CHOOSE m \in {t.left : t \in timers} :
                           \A t \in timers : m <= t.left)

Tick(d) ==
  /\ ~destroyed
  /\ editLog # <<>>
  /\ timers # {} \/ Len(editLog) < MaxEdits
  /\ Elapse(d) > 0
  /\ sinceEdit' = Min(sinceEdit + Elapse(d), TimeCap)
  /\ timers' = {[t EXCEPT !.left = t.left - Elapse(d)] : t \in timers}
  /\ sinceEdit' # sinceEdit \/ timers' # timers
  /\ UNCHANGED <<edPc, currentContent, saveTimeout, saveLog, closers, timerPubs,
                 destroyed, editLog, closeLog, within, spaced>>
  /\ UNCHANGED <<backVars, busVars, dashVars>>
  /\ UNCHANGED <<idVars, delVars, fetchFailed, dashDestroyed>>

\* ------------------------------------------------------------ the backend
\* save_note: idempotent overwrite of the note's content
SaveNote(st, id, content) ==
  [i \in DOMAIN st \cup {id} |-> IF i = id THEN content ELSE st[i]]

\* trigger_refresh_notes emits one 'refresh-notes' event, which reaches the
\* listeners registered at that moment
Emit ==
  /\ published' = published + 1
  /\ events' = IF dashPc = "listening" THEN events + 1 ELSE events
  /\ pubFailed' = pubFailed

\* trigger_refresh_notes is rejected: nothing is emitted
EmitFails ==
  /\ pubFailed' = pubFailed + 1
  /\ UNCHANGED <<published, events>>

\* the summary list before any get_all_notes response: ref<NoteInfo[]>([])
EmptyList == [i \in {} |-> ""]

InFlight == {i \in 1..Len(saveLog) : saveLog[i].status = "inflight"}

Resolved(i, ok) ==
  [saveLog EXCEPT ![i].status = IF ok THEN "ok" ELSE "failed"]

\* ------------------------------------- editor: the timer callback resumes
\* after `await invoke('save_note')`: saveTimeout = null, then
\* trigger_refresh_notes is invoked; a rejection goes to the catch block,
\* which only logs
SlotAfterSave(ok) == IF ok THEN 0 ELSE saveTimeout

TimerSaveResolves(i, ok) ==
  /\ ~destroyed
  /\ i \in InFlight
  /\ saveLog[i].by = "timer"
  /\ saveLog' = Resolved(i, ok)
  /\ store' = IF ok THEN SaveNote(store, noteId, saveLog[i].content) ELSE store
  /\ saveTimeout' = SlotAfterSave(ok)
  /\ timerPubs' = IF ok THEN timerPubs + 1 ELSE timerPubs
  /\ UNCHANGED <<edPc, currentContent, timers, closers, destroyed, editLog,
                 closeLog, sinceEdit, within, spaced>>
  /\ UNCHANGED <<minted, busVars, dashVars>>
  /\ UNCHANGED <<idVars, delVars, fetchFailed, dashDestroyed>>

\* trigger_refresh_notes of a timer callback runs in the backend; nothing
\* follows its await in the callback, and a rejection is caught and logged
TimerRefreshResolves(ok) ==
  /\ timerPubs > 0
  /\ timerPubs' = timerPubs - 1
  /\ IF ok THEN Emit ELSE EmitFails
  /\ UNCHANGED <<edPc, currentContent, saveTimeout, timers, saveLog, closers,
                 destroyed, editLog, closeLog, sinceEdit, within, spaced>>
  /\ UNCHANGED <<backVars, dashVars>>
  /\ UNCHANGED <<idVars, delVars, fetchFailed, dashDestroyed>>

\* ------------------------------------------------------ editor: closeWindow
\* if (saveTimeout): the flush is needed
FlushNeeded == saveTimeout # 0

CloseEntry(sid) ==
  [pending |-> timers # {}, sid |-> sid, within |-> within,
   nEdits |-> Len(editLog)]

\* a flush that saves the content the first scheduled save had captured
FlushContentFirst == IF editLog = <<>> THEN currentContent ELSE editLog[1]

\* the flush saves currentContent.value
FlushContent == currentContent

\* closeWindow with saveTimeout set: clearTimeout, saveTimeout = null,
\* invoke('save_note', {id, content: currentContent.value}), then suspends
CloseWithFlush ==
  /\ ~destroyed
  /\ Len(closeLog) < MaxCloses
  /\ FlushNeeded
  /\ timers' = ClearTimeout(timers, saveTimeout)
  /\ saveTimeout' = 0
  /\ saveLog' = Append(saveLog, SaveCall("close", 0, FlushContent))
  /\ closers' = closers \cup {[sid |-> Len(saveLog) + 1, stage |-> "save"]}
  /\ closeLog' = Append(closeLog, CloseEntry(Len(saveLog) + 1))
  /\ UNCHANGED <<edPc, currentContent, timerPubs, destroyed, editLog, sinceEdit,
                 within, spaced>>
  /\ UNCHANGED <<backVars, busVars, dashVars>>
  /\ UNCHANGED <<idVars, delVars, fetchFailed, dashDestroyed>>

\* closeWindow with saveTimeout null: appWindow.close() is issued at once
CloseNoFlush ==
  /\ ~destroyed
  /\ Len(closeLog) < MaxCloses
  /\ ~FlushNeeded
  /\ destroyed' = TRUE
  /\ closeLog' = Append(closeLog, CloseEntry(0))
  /\ UNCHANGED <<edPc, currentContent, saveTimeout, timers, saveLog, closers,
                 timerPubs, editLog, sinceEdit, within, spaced>>
  /\ UNCHANGED <<backVars, busVars, dashVars>>
  /\ UNCHANGED <<idVars, delVars, fetchFailed, dashDestroyed>>

\* a closeWindow without its try/catch: a rejected flush save ends the call
\* before appWindow.close()
CloseSaveResolvesUncaught(c, ok) ==
  /\ ~destroyed
  /\ c \in closers
  /\ c.stage = "save"
  /\ saveLog' = Resolved(c.sid, ok)
  /\ store' = IF ok THEN SaveNote(store, noteId, saveLog[c.sid].content) ELSE store
  /\ closers' = IF ok THEN (closers \ {c}) \cup {[c EXCEPT !.stage = "refresh"]}
                      ELSE closers \ {c}
  /\ UNCHANGED <<edPc, currentContent, saveTimeout, timers, timerPubs, editLog,
                 closeLog, sinceEdit, within, spaced, destroyed>>
  /\ UNCHANGED <<minted, busVars, dashVars>>
  /\ UNCHANGED <<idVars, delVars, fetchFailed, dashDestroyed>>

\* the flush save resolves: on success trigger_refresh_notes is invoked and
\* awaited, on failure the catch block logs and appWindow.close() follows
CloseSaveResolves(c, ok) ==
  /\ ~destroyed
  /\ c \in closers
  /\ c.stage = "save"
  /\ saveLog' = Resolved(c.sid, ok)
  /\ store' = IF ok THEN SaveNote(store, noteId, saveLog[c.sid].content) ELSE store
  /\ closers' = IF ok THEN (closers \ {c}) \cup {[c EXCEPT !.stage = "refresh"]}
                      ELSE closers \ {c}
  /\ destroyed' = ~ok
  /\ UNCHANGED <<edPc, currentContent, saveTimeout, timers, timerPubs, editLog,
                 closeLog, sinceEdit, within, spaced>>
  /\ UNCHANGED <<minted, busVars, dashVars>>
  /\ UNCHANGED <<idVars, delVars, fetchFailed, dashDestroyed>>

\* trigger_refresh_notes of a closeWindow call runs in the backend; the call
\* resumes with appWindow.close(), after the catch block when it is rejected
CloseRefreshResolves(c, ok) ==
  /\ c \in closers
  /\ c.stage = "refresh"
  /\ closers' = closers \ {c}
  /\ IF ok THEN Emit ELSE EmitFails
  /\ destroyed' = TRUE
  /\ UNCHANGED <<edPc, currentContent, saveTimeout, timers, saveLog, timerPubs,
                 editLog, closeLog, sinceEdit, within, spaced>>
  /\ UNCHANGED <<backVars, dashVars>>
  /\ UNCHANGED <<idVars, delVars, fetchFailed, dashDestroyed>>

\* a save_note call outlives its window: the backend runs it to completion,
\* and no continuation is left to resume
OrphanSaveResolves(i, ok) ==
  /\ destroyed
  /\ i \in InFlight
  /\ saveLog' = Resolved(i, ok)
  /\ store' = IF ok THEN SaveNote(store, noteId, saveLog[i].content) ELSE store
  /\ closers' = {c \in closers : c.sid # i}
  /\ UNCHANGED <<edPc, currentContent, saveTimeout, timers, timerPubs, destroyed,
                 editLog, closeLog, sinceEdit, within, spaced>>
  /\ UNCHANGED <<minted, busVars, dashVars>>
  /\ UNCHANGED <<idVars, delVars, fetchFailed, dashDestroyed>>

\* ------------------------------------------------------ dashboard: fetchNotes
\* fetchNotes up to its await: invoke('get_all_notes') is issued
IssueFetch ==
  /\ fetchSeq' = fetchSeq + 1
  /\ fetches' = fetches \cup {[seq |-> fetchSeq + 1, served |-> FALSE,
                               snap |-> EmptyList]}

\* the backend runs get_all_notes: the response lists the store as it is now
FetchServed(f) ==
  /\ f \in fetches
  /\ ~f.served
  /\ fetches' = (fetches \ {f}) \cup {[f EXCEPT !.served = TRUE, !.snap = store]}
  /\ UNCHANGED <<dashPc, allNotes, allNotesSeq, fetchSeq, refetches, userFetches,
                 isCreatingNote, creating, createCalls, createSkipped, hidden>>
  /\ UNCHANGED <<edVars, backVars, busVars>>
  /\ UNCHANGED <<idVars, delVars, fetchFailed, dashDestroyed>>

\* a fetchNotes whose catch empties the list
AssignNotesOrClear(f, ok) ==
  /\ allNotes' = IF ok THEN f.snap ELSE EmptyList
  /\ allNotesSeq' = IF ok THEN f.seq ELSE allNotesSeq

\* allNotes.value = await invoke(...): the response replaces the whole list;
\* a rejection is caught and leaves it alone
AssignNotes(f, ok) ==
  /\ allNotes' = IF ok THEN f.snap ELSE allNotes
  /\ allNotesSeq' = IF ok THEN f.seq ELSE allNotesSeq

\* a get_all_notes call resolves and fetchNotes resumes; after the first one
\* onMounted goes on to `await listen('refresh-notes', ...)`
FetchResolves(f, ok) ==
  /\ f \in fetches
  /\ ok => f.served
  /\ fetches' = fetches \ {f}
  /\ AssignNotes(f, ok)
  /\ fetchFailed' = IF ok THEN fetchFailed
                         ELSE [n |-> fetchFailed.n + 1, at |-> allNotesSeq]
  /\ dashPc' = IF dashPc = "fetching" /\ f.seq = 1 THEN "registering" ELSE dashPc
  /\ UNCHANGED <<fetchSeq, refetches, userFetches, isCreatingNote, creating,
                 createCalls, createSkipped, hidden>>
  /\ UNCHANGED <<edVars, backVars, busVars>>
  /\ UNCHANGED <<idVars, delVars, dashDestroyed>>

\* listen('refresh-notes', handler) resolves: the handler is registered
ListenRegistered ==
  /\ dashPc = "registering"
  /\ dashPc' = "listening"
  /\ UNCHANGED <<allNotes, allNotesSeq, fetches, fetchSeq, refetches, userFetches,
                 isCreatingNote, creating, createCalls, createSkipped, hidden>>
  /\ UNCHANGED <<edVars, backVars, busVars>>
  /\ UNCHANGED <<idVars, delVars, fetchFailed, dashDestroyed>>

\* the listener runs for one event: fetchNotes()
RefreshNotesEvent ==
  /\ events > 0
  /\ events' = events - 1
  /\ refetches' = refetches + 1
  /\ IssueFetch
  /\ UNCHANGED <<dashPc, allNotes, allNotesSeq, userFetches, isCreatingNote,
                 creating, createCalls, createSkipped, hidden>>
  /\ UNCHANGED <<edVars, backVars, published, pubFailed>>
  /\ UNCHANGED <<idVars, delVars, fetchFailed, dashDestroyed>>

\* the "Refresh List" button: @click.stop="fetchNotes"
ClickRefresh ==
  /\ userFetches < MaxUserFetches
  /\ userFetches' = userFetches + 1
  /\ IssueFetch
  /\ UNCHANGED <<dashPc, allNotes, allNotesSeq, refetches, isCreatingNote,
                 creating, createCalls, createSkipped, hidden>>
  /\ UNCHANGED <<edVars, backVars, busVars>>
  /\ UNCHANGED <<idVars, delVars, fetchFailed, dashDestroyed>>

\* --------------------------------------------------- dashboard: createNewNote
\* the clicks so far on the New Note button and on the delete buttons, which
\* MaxCreateClicks bounds together
DashClicks == createCalls + createSkipped + deleteClicks

\* a createNewNote without its guard
CreateGuardOff == FALSE

\* if (isCreatingNote.value) return
CreateGuard == isCreatingNote

\* createNewNote returns at the guard
CreateNewNoteSkipped ==
  /\ DashClicks < MaxCreateClicks
  /\ CreateGuard
  /\ createSkipped' = createSkipped + 1
  /\ UNCHANGED <<dashPc, allNotes, allNotesSeq, fetches, fetchSeq, refetches,
                 userFetches, isCreatingNote, creating, createCalls, hidden>>
  /\ UNCHANGED <<edVars, backVars, busVars>>
  /\ UNCHANGED <<idVars, delVars, fetchFailed, dashDestroyed>>

\* createNewNote passes the guard: isCreatingNote = true, then
\* invoke('create_new_note_cmd') is issued and awaited
CreateNewNote ==
  /\ DashClicks < MaxCreateClicks
  /\ ~CreateGuard
  /\ isCreatingNote' = TRUE
  /\ creating' = creating + 1
  /\ createCalls' = createCalls + 1
  /\ UNCHANGED <<dashPc, allNotes, allNotesSeq, fetches, fetchSeq, refetches,
                 userFetches, createSkipped, hidden>>
  /\ UNCHANGED <<edVars, backVars, busVars>>
  /\ UNCHANGED <<idVars, delVars, fetchFailed, dashDestroyed>>

\* create_new_note_cmd resolves: on success the store holds a new empty note
\* under a fresh id; finally { isCreatingNote = false } runs either way
CreateResolves(ok) ==
  /\ creating > 0
  /\ creating' = creating - 1
  /\ isCreatingNote' = FALSE
  /\ minted' = IF ok THEN minted + 1 ELSE minted
  /\ store' = IF ok THEN SaveNote(store, NewIds[minted + 1], "") ELSE store
  /\ UNCHANGED <<dashPc, allNotes, allNotesSeq, fetches, fetchSeq, refetches,
                 userFetches, createCalls, createSkipped, hidden>>
  /\ UNCHANGED <<edVars, busVars>>
  /\ UNCHANGED <<idVars, delVars, fetchFailed, dashDestroyed>>

\* ------------------------------------------------------ dashboard: deleteNote
\* delete_note in the backend: the note leaves the store
DeleteNoteCmd(st, id) == [i \in DOMAIN st \ {id} |-> st[i]]

\* the clicks on a delete button are bounded, within the clicks on the
\* dashboard's buttons
DeleteClickLeft ==
  /\ deleteClicks < MaxDeleteClicks
  /\ DashClicks < MaxCreateClicks

\* the delete button of a listed note, and confirm(...) answers false:
\* deleteNote returns
DeleteNoteDeclined(id) ==
  /\ DeleteClickLeft
  /\ id \in DOMAIN allNotes
  /\ deleteClicks' = deleteClicks + 1
  /\ UNCHANGED <<deleting, dashVars, edVars, backVars, busVars, idVars,
                 fetchFailed, dashDestroyed>>

\* the delete button of a listed note, and confirm(...) answers true:
\* invoke('delete_note', { id }) is issued and awaited
DeleteNote(id) ==
  /\ DeleteClickLeft
  /\ id \in DOMAIN allNotes
  /\ deleteClicks' = deleteClicks + 1
  /\ deleting' = Append(deleting, id)
  /\ UNCHANGED <<dashVars, edVars, backVars, busVars, idVars, fetchFailed,
                 dashDestroyed>>

\* the k-th awaited delete_note resolves (it rejects when the note is already
\* absent); deleteNote has nothing after the await, a rejection is caught
DeleteResolves(k, ok) ==
  /\ k \in 1..Len(deleting)
  /\ ok => deleting[k] \in DOMAIN store
  /\ store' = IF ok THEN DeleteNoteCmd(store, deleting[k]) ELSE store
  /\ deleting' = SubSeq(deleting, 1, k - 1) \o SubSeq(deleting, k + 1, Len(deleting))
  /\ UNCHANGED <<deleteClicks, minted, dashVars, edVars, busVars, idVars,
                 fetchFailed, dashDestroyed>>

\* ------------------------------------------------ dashboard: closeWindow
\* a closeWindow without the return after hide(): it goes on to
\* appWindow.close()
HideDashboardThenClose ==
  /\ ~hidden
  /\ hidden' = TRUE
  /\ dashDestroyed' = TRUE
  /\ UNCHANGED <<dashPc, allNotes, allNotesSeq, fetches, fetchSeq, refetches,
                 userFetches, isCreatingNote, creating, createCalls, createSkipped>>
  /\ UNCHANGED <<edVars, backVars, busVars, idVars, delVars, fetchFailed>>

\* if (isDashboard.value) { await appWindow.hide(); return; }
HideDashboard ==
  /\ ~hidden
  /\ hidden' = TRUE
  /\ UNCHANGED <<dashPc, allNotes, allNotesSeq, fetches, fetchSeq, refetches,
                 userFetches, isCreatingNote, creating, createCalls, createSkipped>>
  /\ UNCHANGED <<edVars, backVars, busVars>>
  /\ UNCHANGED <<idVars, delVars, fetchFailed, dashDestroyed>>

\* ------------------------------------------------------------ the system
\* both windows have run onMounted up to its first await: the editor waits
\* for load_note, the dashboard for its first get_all_notes
InitSystem ==
  /\ edPc = "loading"
  /\ currentContent = ""
  /\ saveTimeout = 0
  /\ timers = {}
  /\ saveLog = <<>>
  /\ closers = {}
  /\ timerPubs = 0
  /\ destroyed = FALSE
  /\ editLog = <<>>
  /\ closeLog = <<>>
  /\ sinceEdit = 0
  /\ within = TRUE
  /\ spaced = TRUE
  /\ store \in {[i \in {noteId} |-> c] : c \in {"", "Draft"}}
  /\ minted = 0
  /\ published = 0
  /\ pubFailed = 0
  /\ events = 0
  /\ dashPc = "fetching"
  /\ allNotes = EmptyList
  /\ allNotesSeq = 0
  /\ fetches = {[seq |-> 1, served |-> FALSE, snap |-> EmptyList]}
  /\ fetchSeq = 1
  /\ refetches = 0
  /\ userFetches = 0
  /\ isCreatingNote = FALSE
  /\ creating = 0
  /\ createCalls = 0
  /\ createSkipped = 0
  /\ hidden = FALSE
  /\ deleting = <<>>
  /\ deleteClicks = 0
  /\ fetchFailed = [n |-> 0, at |-> 0]
  /\ dashDestroyed = FALSE

\* the editor window has derived its note id from its label
Init ==
  /\ InitSystem
  /\ label = EditorLabel
  /\ role = Resolve(EditorLabel)

\* a window with any of the labels, before its startup has looked at it
InitResolve ==
  /\ InitSystem
  /\ label \in Labels
  /\ role = Unresolved

EditorNext ==
  \/ \E ok \in BOOLEAN : LoadNoteResolves(ok)
  \/ \E m \in {Typed[Len(editLog) + 1]} : MarkdownUpdated(m)
  \/ \E d \in Steps : Tick(d)
  \/ \E t \in timers : TimerFires(t)
  \/ \E i \in InFlight, ok \in BOOLEAN : TimerSaveResolves(i, ok)
  \/ TimerRefreshResolves(TRUE)
  \/ CloseWithFlush
  \/ CloseNoFlush
  \/ \E c \in closers, ok \in BOOLEAN : CloseSaveResolves(c, ok)
  \/ \E c \in closers : CloseRefreshResolves(c, TRUE)
  \/ \E i \in InFlight, ok \in BOOLEAN : OrphanSaveResolves(i, ok)

DashboardNext ==
  \/ \E f \in fetches : FetchServed(f)
  \/ \E f \in fetches, ok \in BOOLEAN : FetchResolves(f, ok)
  \/ ListenRegistered
  \/ ClickRefresh
  \/ CreateNewNoteSkipped
  \/ CreateNewNote
  \/ \E ok \in BOOLEAN : CreateResolves(ok)
  \/ \E id \in DOMAIN allNotes : DeleteNoteDeclined(id)
  \/ \E id \in DOMAIN allNotes : DeleteNote(id)
  \/ \E k \in 1..Len(deleting), ok \in BOOLEAN : DeleteResolves(k, ok)
  \/ HideDashboard

Next == EditorNext \/ DashboardNext \/ RefreshNotesEvent

\* the whole system: both windows, the backend and the event between them
Spec == Init /\ [][Next]_vars

\* the editor window and the backend, the dashboard still starting up
SpecEditor == Init /\ [][EditorNext]_vars

\* the dashboard window and the backend, the editor still loading
SpecDashboard == Init /\ [][DashboardNext]_vars

\* the editor window, the backend and the dashboard's refresh listener, for
\* the runs with at most MaxRefreshInputs edits and close requests
RefreshNext ==
  \/ EditorNext /\ Len(editLog') + Len(closeLog') <= MaxRefreshInputs
  \/ \E f \in fetches : FetchServed(f)
  \/ \E f \in fetches, ok \in BOOLEAN : FetchResolves(f, ok)
  \/ ListenRegistered
  \/ RefreshNotesEvent

SpecRefresh == Init /\ [][RefreshNext]_vars

\* an editor window that gets up to MaxCloseInputs edits and close requests,
\* whose trigger_refresh_notes calls may be rejected as well
CloseNext ==
  \/ EditorNext /\ Len(editLog') + Len(closeLog') <= MaxCloseInputs
  \/ TimerRefreshResolves(FALSE)
  \/ \E c \in closers : CloseRefreshResolves(c, FALSE)

\* every save_note and trigger_refresh_notes call a closeWindow call awaits
\* eventually resolves
CloseFairness ==
  /\ WF_vars(\E c \in closers, ok \in BOOLEAN : CloseSaveResolves(c, ok))
  /\ WF_vars(\E c \in closers, ok \in BOOLEAN : CloseRefreshResolves(c, ok))

SpecClose == Init /\ [][CloseNext]_vars /\ CloseFairness

\* the startup of one window, for every label tried
SpecResolve == InitResolve /\ [][ResolveLabel]_vars

\* ------------------------------------------------------------ the claims
SavesOk == {i \in 1..Len(saveLog) : saveLog[i].status = "ok"}

\* a save_note call carrying currentContent has been issued (resolved or not)
LastEditSent ==
  \E i \in 1..Len(saveLog) : saveLog[i].content = currentContent

\* C1: at the moment appWindow.close() is issued by the editor window,
\* either no edit was ever received or a save call carrying the current
\* content has been issued (the claim asks further that it has resolved).
C1_LastEditNeverLost ==
  [][(~destroyed /\ destroyed') => (editLog = <<>> \/ LastEditSent')]_vars

\* C2: for every close request made while a ScheduledSave was pending (a
\* debounce timer armed), a save call has been issued by that request and has
\* resolved by the time appWindow.close() is issued, also when the destroy is
\* issued by a second close request.
C2_FlushResolvesBeforeDestroy ==
  [][(~destroyed /\ destroyed') =>
       \A k \in 1..Len(closeLog') :
         closeLog'[k].pending =>
           /\ closeLog'[k].sid # 0
           /\ saveLog'[closeLog'[k].sid].status # "inflight"]_vars

\* C3: a close request made when no debounce timer is armed and the most
\* recent debounced save has resolved (successfully or not) issues no save
\* call.
C3_CloseWithoutPendingIssuesNoSave ==
  [][(Len(closeLog') > Len(closeLog) /\ timers = {} /\ InFlight = {})
       => saveLog' = saveLog]_vars

\* C4: while every edit has arrived strictly less than the debounce delay
\* after the previous one and the window has not been closed, at most one
\* save call has been issued; once the timer has expired exactly one has, and
\* it carries the content of the last edit.
C4_Coalescing ==
  (within /\ editLog # <<>> /\ closeLog = <<>>) =>
     /\ Len(saveLog) <= 1
     /\ Len(saveLog) = 1 => saveLog[1].content = Last(editLog)
     /\ timers = {} => Len(saveLog) = 1

C4_Witness ==
  /\ within
  /\ closeLog = <<>>
  /\ Len(editLog) >= 2
  /\ timers = {}
  /\ Len(saveLog) = 1
  /\ saveLog[1].content = Last(editLog)
  /\ saveLog[1].content # editLog[1]

\* C5: while every edit has arrived more than the debounce delay after the
\* previous one and the window has not been closed, the k-th save call was
\* issued by the k-th edit's timer and carries the k-th edit's content, and
\* once no timer is armed there are as many save calls as edits, however long
\* the earlier saves take and whatever their outcome.
C5_OneSavePerSpacedEdit ==
  (spaced /\ closeLog = <<>>) =>
     /\ Len(saveLog) <= Len(editLog)
     /\ Len(editLog) <= Len(saveLog) + 1
     /\ \A k \in 1..Len(saveLog) :
          /\ saveLog[k].by = "timer"
          /\ saveLog[k].tid = k
          /\ saveLog[k].content = editLog[k]
     /\ timers = {} => Len(saveLog) = Len(editLog)

C5_Witness ==
  /\ spaced
  /\ closeLog = <<>>
  /\ Len(editLog) = 2
  /\ Len(saveLog) = 2
  /\ saveLog[1].status = "inflight"
  /\ saveLog[2].status = "failed"
  /\ saveLog[2].content = editLog[2]

C7_AtMostOneSaveInFlight == Cardinality(InFlight) <= 1

\* C8: the summary list never goes back to the response of an earlier-issued
\* get_all_notes request once it holds that of a later-issued one.
C8_NewestRefreshWins == [][allNotesSeq' >= allNotesSeq]_vars

\* C9: at most one create_new_note_cmd call is in flight, isCreatingNote is
\* set exactly while it is, and every createNewNote invocation made meanwhile
\* has returned without issuing a call.
C9_SingleCreateInFlight ==
  /\ creating <= 1
  /\ isCreatingNote <=> creating = 1

C9_Witness ==
  /\ creating = 1
  /\ createCalls = 1
  /\ createSkipped >= 2

\* C10: every save that succeeded is matched by exactly one 'refresh-notes'
\* event, emitted or about to be (its trigger_refresh_notes call in flight),
\* and no event exists without a successful save.
PendingRefresh ==
  timerPubs + Cardinality({c \in closers : c.stage = "refresh"})

C10_OneRefreshPerSuccessfulSave ==
  Cardinality(SavesOk) = published + PendingRefresh

\* C11: a resolved label is the Dashboard exactly when it is "main";
\* otherwise it is a NoteEditor whose id is the label without its leading
\* "note-" (removed once, later occurrences kept) when the label starts with
\* "note-", and the whole label when it does not.
C11_ResolveLabel ==
  role # Unresolved =>
    /\ label = Main => role = Dashboard
    /\ (label # Main /\ StartsWith(label, NotePrefix)) =>
         role = NoteEditor(SubSeq(label, Len(NotePrefix) + 1, Len(label)))
    /\ (label # Main /\ ~StartsWith(label, NotePrefix)) =>
         role = NoteEditor(label)

C11_Witness ==
  /\ label = NotePrefix \o <<"4">> \o NotePrefix
  /\ role = NoteEditor(<<"4">> \o NotePrefix)

\* C12: when a confirmed deleteNote's delete call resolves successfully, the
\* dashboard issues a list-all call (the refresh after which the list no
\* longer holds the deleted id).
C12_DeleteThenRefresh ==
  [][(Len(deleting') < Len(deleting) /\ DOMAIN store' # DOMAIN store)
       => fetchSeq' = fetchSeq + 1]_vars

\* C13: a list-all call that fails leaves the dashboard's summary list
\* exactly as it was, and fetchNotes returns normally: the call is no longer
\* pending and the dashboard goes on as after a success.
C13_ListFailureKeepsList ==
  [][fetchFailed'.n > fetchFailed.n =>
       /\ allNotes' = allNotes
       /\ allNotesSeq' = allNotesSeq
       /\ Cardinality(fetches') = Cardinality(fetches) - 1
       /\ dashPc = "fetching" => dashPc' \in {"fetching", "registering"}
       /\ dashPc # "fetching" => dashPc' = dashPc]_vars

C13_Witness ==
  /\ fetchFailed.n > 0
  /\ fetchFailed.at > 0
  /\ fetchFailed.at = allNotesSeq
  /\ allNotes # EmptyList
  /\ fetches = {}

\* C14: closing the dashboard only hides it: the window is not destroyed, no
\* save and no RefreshEvent is issued, and the summary list, the pending
\* list-all calls and the refresh subscription stay as they were.
C14_DashboardCloseOnlyHides ==
  [][hidden' # hidden =>
       /\ hidden' /\ ~dashDestroyed'
       /\ UNCHANGED <<saveLog, published, events, store>>
       /\ UNCHANGED <<allNotes, allNotesSeq, fetches, fetchSeq, dashPc>>]_vars

C14_Witness ==
  /\ hidden
  /\ ~dashDestroyed
  /\ dashPc = "listening"
  /\ allNotes # EmptyList

\* C15: in every reachable state of an editor window at most one debounce
\* timer is armed.
C15_AtMostOneArmedTimer == Cardinality(timers) <= 1

\* C16: a failed save is not retried: the step in which a save fails leaves
\* the editor's content alone and issues no save, and once some save has
\* failed every save issued is either issued by an expiring timer or by a
\* close request made while a timer is armed.
C16_FailedSaveNotRetried ==
  [][/\ (\E i \in InFlight : saveLog'[i].status = "failed") =>
          /\ currentContent' = currentContent
          /\ Len(saveLog') = Len(saveLog)
     /\ ((\E i \in 1..Len(saveLog) : saveLog[i].status = "failed")
           /\ Len(saveLog') > Len(saveLog)) =>
          \/ Last(saveLog').by = "timer"
          \/ timers # {}]_vars

\* C17: an editor window only moves forward, and once a close request has
\* been accepted no edit notification is accepted (the content and the list
\* of accepted edits stay as they are) and no new timer is armed.
C17_NoEditOnceClosing ==
  [][/\ destroyed => destroyed'
     /\ closeLog # <<>> =>
          /\ SubSeq(closeLog', 1, Len(closeLog)) = closeLog
          /\ editLog' = editLog
          /\ currentContent' = currentContent
          /\ {t.id : t \in timers'} \subseteq {t.id : t \in timers}]_vars

\* C19: the window-destroy call is never issued while a save call of the same
\* editor window is still in flight; stated here for a window that gets one
\* close request and for its timer-triggered saves (that a second close
\* request destroys the window under the first one's flush save is C2).
C19_NoDestroyWhileSaveInFlight ==
  [][(~destroyed /\ destroyed' /\ Len(closeLog') = 1) =>
       \A i \in InFlight' : saveLog'[i].by # "timer"]_vars

\* C20: the saveTimeout slot is non-empty exactly when a debounce timer is
\* armed; stated here for the states of a live window in which no save is in
\* flight, so that a slot left behind by a completed save is what is seen.
C20_SlotTracksTimer ==
  (~destroyed /\ InFlight = {}) => ((saveTimeout # 0) <=> (timers # {}))

\* C18: every close request on an editor window is eventually followed by
\* the window-destroy call, whether the flush save and the refresh publish
\* succeed or are rejected, provided the awaited calls resolve.
C18_CloseLeadsToDestroy == (closeLog # <<>>) ~> destroyed

C18_Witness ==
  /\ destroyed
  /\ Len(closeLog) = 1
  /\ closeLog[1].sid # 0
  /\ saveLog[closeLog[1].sid].status = "ok"
  /\ pubFailed = 1
  /\ timerPubs = 0

\* C21: no refresh is missed during dashboard startup: once the system is
\* quiescent the summary list reflects every save that succeeded. Stated
\* here for the runs in which the editor was never closed, no list-all call
\* was rejected and the list holds the response of the newest list-all call,
\* so that a stale list can only come from a dropped 'refresh-notes' event.
Quiescent ==
  /\ dashPc = "listening"
  /\ fetches = {}
  /\ events = 0
  /\ timers = {}
  /\ InFlight = {}
  /\ PendingRefresh = 0

C21_NoRefreshMissedAtStartup ==
  (/\ Quiescent
   /\ closeLog = <<>>
   /\ fetchFailed.n = 0
   /\ allNotesSeq = fetchSeq
   /\ SavesOk # {}) => allNotes = store

====
